---- MODULE Spec2Model ----
(***************************************************************************)
(* The two scripts of the repository, calculate_open_positions.py and      *)
(* convert_trading212_to_ib.py, as state machines over one Trading212      *)
(* export.                                                                 *)
(*                                                                         *)
(* Strings the code looks into (action labels, tickers, numeric fields)    *)
(* are sequences of one-character strings, so that lower(), "in",          *)
(* startswith(), replace(), float() and the ordering used by sorted() are  *)
(* computed character by character.  Strings the code only passes through  *)
(* (timestamps, the literals 'Buy', '0', '') are TLA+ strings.             *)
(*                                                                         *)
(* Numbers are decimals held exactly, in units of 1/Scale; the inputs      *)
(* carry at most four fractional digits, so float() and the additions are  *)
(* exact in the model (binary rounding of the floats is not modelled).     *)
(***************************************************************************)
EXTENDS Integers, Sequences, FiniteSets, TLC

VARIABLES
    input,          \* the rows csv.DictReader yields, in file order
    ppc,            \* calculate_open_positions.py: where main() is
    pi,             \* rows its reader has yielded
    positions,      \* the defaultdict of calculate_open_positions
    open_positions, \* the dict calculate_open_positions returns
    positions_csv,  \* the file write_open_positions_csv writes
    cpc,            \* convert_trading212_to_ib.py: where main() is
    ci,             \* rows its reader has yielded
    ib_rows,        \* the list parse_trading212_csv builds
    origin,         \* history: origin[j] is the input row ib_rows[j] was built from
    ib_csv          \* the file write_ib_csv writes

vars == <<input, ppc, pi, positions, open_positions, positions_csv,
          cpc, ci, ib_rows, origin, ib_csv>>

posVars == <<ppc, pi, positions, open_positions, positions_csv>>
convVars == <<cpc, ci, ib_rows, origin, ib_csv>>

----------------------------------------------------------------------------
(* Bounds and constants *)

MaxLen == 3

\* one unit of the model's decimals is 1/Scale = 0.0001
Scale == 10000

\* the 0.0001 of "data['shares'] > 0.0001", in units of 1/Scale
Epsilon == 1

----------------------------------------------------------------------------
(* Characters and strings *)

Digits == <<"0", "1", "2", "3", "4", "5", "6", "7", "8", "9">>

UpperCase == <<"A", "B", "C", "D", "E", "F", "G", "H", "I", "J", "K", "L", "M",
               "N", "O", "P", "Q", "R", "S", "T", "U", "V", "W", "X", "Y", "Z">>

LowerCase == <<"a", "b", "c", "d", "e", "f", "g", "h", "i", "j", "k", "l", "m",
               "n", "o", "p", "q", "r", "s", "t", "u", "v", "w", "x", "y", "z">>

\* the characters of the model in code point order
CodePoints == <<" ", "$", "(", ")", "+", ",", "-", ".">> \o Digits \o <<":">>
              \o UpperCase \o LowerCase

Range(s) == {s[i] : i \in 1..Len(s)}

IndexOf(seq, c) == CHOOSE i \in 1..Len(seq) : seq[i] = c

Ord(c) == IndexOf(CodePoints, c)

\* s[i-1:j], the characters i..j of s that exist
Slice(s, i, j) ==
    LET lo == IF i < 1 THEN 1 ELSE i
        hi == IF j > Len(s) THEN Len(s) ELSE j
    IN [k \in 1..(hi - lo + 1) |-> s[lo + k - 1]]

\* str.lower() on one character
LowerChar(c) == IF c \in Range(UpperCase) THEN LowerCase[IndexOf(UpperCase, c)] ELSE c

\* str.lower()
Lower(s) == [i \in 1..Len(s) |-> LowerChar(s[i])]

\* sub in s
Contains(s, sub) ==
    \E i \in 1..(Len(s) - Len(sub) + 1) : Slice(s, i, i + Len(sub) - 1) = sub

\* s.startswith(p)
StartsWith(s, p) == Len(s) >= Len(p) /\ Slice(s, 1, Len(p)) = p

\* s.replace(c, '.')
RECURSIVE ReplaceByDot(_, _)
ReplaceByDot(s, c) ==
    IF s = <<>> THEN <<>>
    ELSE IF Head(s) = c THEN <<".">> \o ReplaceByDot(Tail(s), c)
    ELSE <<Head(s)>> \o ReplaceByDot(Tail(s), c)

\* s.replace(c, '')
RECURSIVE RemoveChar(_, _)
RemoveChar(s, c) ==
    IF s = <<>> THEN <<>>
    ELSE IF Head(s) = c THEN RemoveChar(Tail(s), c)
    ELSE <<Head(s)>> \o RemoveChar(Tail(s), c)

\* s1 < s2 for Python strings: by code point, a proper prefix first
RECURSIVE StrLess(_, _)
StrLess(s1, s2) ==
    IF s2 = <<>> THEN FALSE
    ELSE IF s1 = <<>> THEN TRUE
    ELSE IF Head(s1) = Head(s2) THEN StrLess(Tail(s1), Tail(s2))
    ELSE Ord(Head(s1)) < Ord(Head(s2))

----------------------------------------------------------------------------
(* float() *)

IsDigit(c) == c \in Range(Digits)

DigitVal(c) == IndexOf(Digits, c) - 1

RECURSIVE DigitsValue(_)
DigitsValue(s) ==
    IF s = <<>> THEN 0
    ELSE DigitsValue(Slice(s, 1, Len(s) - 1)) * 10 + DigitVal(s[Len(s)])

Pow10(n) == IF n = 0 THEN 1 ELSE IF n = 1 THEN 10 ELSE IF n = 2 THEN 100
            ELSE IF n = 3 THEN 1000 ELSE 10000

\* the text without its sign
Unsigned(s) == IF s # <<>> /\ Head(s) \in {"+", "-"} THEN Tail(s) ELSE s

DotAt(s) == IF "." \in Range(s) THEN IndexOf(s, ".") ELSE Len(s) + 1

IntPart(s) == Slice(s, 1, DotAt(s) - 1)

FracPart(s) == Slice(s, DotAt(s) + 1, Len(s))

\* float(s) returns: s is [sign] digits [. digits] with a digit somewhere.
\* Anything else of the model's alphabet (letters, commas, the empty string)
\* makes float() raise ValueError.
FloatParses(s) ==
    LET u == Unsigned(s) IN
    /\ \A i \in 1..Len(IntPart(u)) : IsDigit(IntPart(u)[i])
    /\ \A i \in 1..Len(FracPart(u)) : IsDigit(FracPart(u)[i])
    /\ Len(IntPart(u)) + Len(FracPart(u)) > 0

\* float(s), in units of 1/Scale (fractional digits past the fourth are cut)
FloatValue(s) ==
    LET u == Unsigned(s)
        frac == Slice(FracPart(u), 1, 4)
        mag == DigitsValue(IntPart(u)) * Scale + DigitsValue(frac) * Pow10(4 - Len(frac))
    IN IF s # <<>> /\ Head(s) = "-" THEN 0 - mag ELSE mag

----------------------------------------------------------------------------
(* The export: action labels, tickers, field texts and rows *)

MarketBuy == <<"M", "a", "r", "k", "e", "t", " ", "b", "u", "y">>
LimitBuy == <<"L", "i", "m", "i", "t", " ", "b", "u", "y">>
MarketSell == <<"M", "a", "r", "k", "e", "t", " ", "s", "e", "l", "l">>
LimitSell == <<"L", "i", "m", "i", "t", " ", "s", "e", "l", "l">>
StopLimitSell == <<"S", "t", "o", "p", " ", "l", "i", "m", "i", "t", " ", "s", "e", "l", "l">>
Deposit == <<"D", "e", "p", "o", "s", "i", "t">>
Dividend == <<"D", "i", "v", "i", "d", "e", "n", "d">>
DividendOrdinary == Dividend \o <<" ", "(", "O", "r", "d", "i", "n", "a", "r", "y", ")">>
LendingInterest == <<"L", "e", "n", "d", "i", "n", "g", " ", "i", "n", "t", "e", "r", "e", "s", "t">>
\* labels the code does not know
Withdrawal == <<"W", "i", "t", "h", "d", "r", "a", "w", "a", "l">>
StopLimitBuy == <<"S", "t", "o", "p", " ", "l", "i", "m", "i", "t", " ", "b", "u", "y">>

buy == <<"b", "u", "y">>
sell == <<"s", "e", "l", "l">>

\* the list both scripts test the action against
TradeActions == {MarketBuy, LimitBuy, MarketSell, LimitSell, StopLimitSell}

NoText == <<>>

\* tickers: "AB" sorts before "B" although it is longer
AB == <<"A", "B">>
B == <<"B">>

T1 == "2024-01-01 10:00:00"
T2 == "2024-01-02 10:00:00"

Txt1 == <<"1">>
TxtTenThousandth == <<"0", ".", "0", "0", "0", "1">>
Txt5 == <<"5", ".", "0", "0">>
Txt6 == <<"6">>
TxtHalf == <<"0", ".", "5">>
Txt1234 == <<"1", ",", "2", "3", "4", ".", "5", "6">>
Txt1000 == <<"1", ",", "0", "0", "0", ".", "0", "0">>
TxtBad == <<"a", "b", "c">>

\* one row of csv.DictReader: the columns Action, Time, Ticker, Name,
\* 'No. of shares', 'Price / share', Result, Total, 'Charge amount'
Row(action, time, ticker, shares, price, result, total) ==
    [Action |-> action, Time |-> time, Ticker |-> ticker, Name |-> NoText,
     Shares |-> shares, Price |-> price, Result |-> result, Total |-> total,
     Charge |-> NoText]

Trade(action, time, ticker, shares, price) ==
    Row(action, time, ticker, shares, price, NoText, NoText)

Inputs(rows) == UNION {[1..n -> rows] : n \in 0..MaxLen}

----------------------------------------------------------------------------
(* Values shared by the two scripts *)

\* the 'Fill Price' cell holds a number or a text
Num(n) == [kind |-> "number", n |-> n]
Text(s) == [kind |-> "text", s |-> s]

\* an output path nothing was written to
NoFile == [exists |-> FALSE, header |-> <<>>, rows |-> <<>>]

fieldnames == <<"Symbol", "Side", "Qty", "Fill Price", "Commission", "Closing Time">>

\* csv.DictWriter: writeheader(), then writerows(rows)
WriteCsv(rows) == [exists |-> TRUE, header |-> fieldnames, rows |-> rows]

NASDAQ == <<"N", "A", "S", "D", "A", "Q", ":">>

CASH == <<"$", "C", "A", "S", "H">>

EmptyDict == [t \in {} |-> 0]

----------------------------------------------------------------------------
(* calculate_open_positions.py *)

\* the defaultdict's factory
DefaultPosition == [shares |-> 0, last_transaction |-> "None"]

\* PosSkips that tells a trade by 'buy' or 'sell' in the lowered label
PosSkipsBySubstring(row) ==
    \/ row.Ticker = NoText
    \/ ~(Contains(Lower(row.Action), buy) \/ Contains(Lower(row.Action), sell))

\* PosSkips that also passes over a trade whose numbers do not parse
PosSkipsMalformed(row) ==
    \/ row.Ticker = NoText
    \/ row.Action \notin TradeActions
    \/ (row.Shares # NoText /\ ~FloatParses(row.Shares))
    \/ (row.Price # NoText /\ ~FloatParses(row.Price))

\* "if not ticker or action not in [...]: continue"
PosSkips(row) == row.Ticker = NoText \/ row.Action \notin TradeActions

\* float(row[...]) if row[...] else 0
FloatOrZero(s) == IF s # NoText THEN FloatValue(s) ELSE 0

\* that expression raises ValueError
FloatOrZeroRaises(s) == s # NoText /\ ~FloatParses(s)

\* UpdatePosition that keeps the stamp and price of the trade dated latest
UpdatePositionLatestDated(cur, row) ==
    LET shares == FloatOrZero(row.Shares)
        price == FloatOrZero(row.Price)
        net == IF Contains(Lower(row.Action), buy) THEN cur.shares + shares
               ELSE IF Contains(Lower(row.Action), sell) THEN cur.shares - shares
               ELSE cur.shares
        keep == cur.last_transaction = T2 /\ row.Time = T1
    IN [shares |-> net,
        last_transaction |-> IF keep THEN cur.last_transaction ELSE row.Time,
        last_price |-> IF keep THEN cur.last_price ELSE price]

\* the update of one position by one trade row
UpdatePosition(cur, row) ==
    LET shares == FloatOrZero(row.Shares)
        price == FloatOrZero(row.Price)
        net == IF Contains(Lower(row.Action), buy) THEN cur.shares + shares
               ELSE IF Contains(Lower(row.Action), sell) THEN cur.shares - shares
               ELSE cur.shares
    IN [shares |-> net, last_transaction |-> row.Time, last_price |-> price]

\* IsOpen with the threshold itself counted as open
IsOpenAtThreshold(data) == data.shares >= Epsilon

\* "data['shares'] > 0.0001"
IsOpen(data) == data.shares > Epsilon

\* the dict comprehension that filters the positions
OpenOnly(pos) == [t \in {u \in DOMAIN pos : IsOpen(pos[u])} |-> pos[t]]

\* SortedKeys in descending order
RECURSIVE SortedKeysDescending(_)
SortedKeysDescending(S) ==
    IF S = {} THEN <<>>
    ELSE LET m == CHOOSE x \in S : \A y \in S \ {x} : StrLess(y, x)
         IN <<m>> \o SortedKeysDescending(S \ {m})

\* sorted(positions.items()): the keys are distinct, so the order is the keys'
RECURSIVE SortedKeys(_)
SortedKeys(S) ==
    IF S = {} THEN <<>>
    ELSE LET m == CHOOSE x \in S : \A y \in S \ {x} : StrLess(x, y)
         IN <<m>> \o SortedKeys(S \ {m})

\* the row write_open_positions_csv builds for one position
PositionRow(ticker, data) ==
    [Symbol |-> NASDAQ \o ticker, Side |-> "Buy", Qty |-> data.shares,
     FillPrice |-> Num(data.last_price), Commission |-> "0",
     ClosingTime |-> data.last_transaction]

PositionRows(pos) ==
    LET keys == SortedKeys(DOMAIN pos)
    IN [j \in 1..Len(keys) |-> PositionRow(keys[j], pos[keys[j]])]

\* one pass of "for row in reader" in calculate_open_positions
PosRow ==
    /\ ppc = "read"
    /\ pi < Len(input)
    /\ pi' = pi + 1
    /\ LET row == input[pi + 1] IN
       IF PosSkips(row)
       THEN /\ ppc' = "read"
            /\ positions' = positions
       ELSE IF FloatOrZeroRaises(row.Shares) \/ FloatOrZeroRaises(row.Price)
       THEN /\ ppc' = "aborted"
            /\ positions' = positions
       ELSE /\ ppc' = "read"
            /\ positions' =
                 LET cur == IF row.Ticker \in DOMAIN positions
                            THEN positions[row.Ticker] ELSE DefaultPosition
                 IN (row.Ticker :> UpdatePosition(cur, row)) @@ positions
    /\ UNCHANGED <<input, open_positions, positions_csv, convVars>>

\* the reader is exhausted: filter and return to main
PosReturn ==
    /\ ppc = "read"
    /\ pi = Len(input)
    /\ open_positions' = OpenOnly(positions)
    /\ ppc' = "write"
    /\ UNCHANGED <<input, pi, positions, positions_csv, convVars>>

\* write_open_positions_csv(positions, output_file)
PosWrite ==
    /\ ppc = "write"
    /\ positions_csv' = WriteCsv(PositionRows(open_positions))
    /\ ppc' = "done"
    /\ UNCHANGED <<input, pi, positions, open_positions, convVars>>

PosInit ==
    /\ ppc = "read"
    /\ pi = 0
    /\ positions = EmptyDict
    /\ open_positions = EmptyDict
    /\ positions_csv = NoFile

----------------------------------------------------------------------------
(* convert_trading212_to_ib.py *)

us_stocks ==
    {<<"A", "A", "P", "L">>,
     <<"M", "S", "F", "T">>,
     <<"G", "O", "O", "G", "L">>,
     <<"A", "M", "Z", "N">>,
     <<"N", "V", "D", "A">>,
     <<"T", "S", "L", "A">>,
     <<"M", "E", "T", "A">>,
     <<"P", "L", "T", "R">>,
     <<"M", "S", "T", "R">>,
     <<"U", "B", "E", "R">>,
     <<"D", "J", "T">>,
     <<"A", "M", "C">>,
     <<"C", "O", "I", "N">>,
     <<"R", "I", "O", "T">>,
     <<"B", "B", "A", "I">>,
     <<"G", "R", "A", "B">>,
     <<"S", "N", "A", "P">>,
     <<"P", "L", "U", "G">>}

get_exchange_prefix(ticker) ==
    IF ticker \in us_stocks THEN NASDAQ \o ticker ELSE NASDAQ \o ticker

\* list.insert(0, x)
ListPrepend(list, x) == <<x>> \o list

\* list.append
ListAppend(list, x) == Append(list, x)

\* 'Buy' if 'buy' in action.lower() else 'Sell'
SideOf(action) == IF Contains(Lower(action), buy) THEN "Buy" ELSE "Sell"

\* "if ticker and shares and price"
TradeComplete(row) == row.Ticker # NoText /\ row.Shares # NoText /\ row.Price # NoText

\* TradeRow with the commission of a buy on every trade
TradeRowZeroCommission(row) ==
    [Symbol |-> get_exchange_prefix(row.Ticker), Side |-> SideOf(row.Action),
     Qty |-> FloatValue(row.Shares), FillPrice |-> Num(FloatValue(row.Price)),
     Commission |-> "0", ClosingTime |-> row.Time]

TradeRow(row) ==
    [Symbol |-> get_exchange_prefix(row.Ticker), Side |-> SideOf(row.Action),
     Qty |-> FloatValue(row.Shares), FillPrice |-> Num(FloatValue(row.Price)),
     Commission |-> IF SideOf(row.Action) = "Buy" THEN "0" ELSE "",
     ClosingTime |-> row.Time]

DepositRow(row) ==
    [Symbol |-> CASH, Side |-> "Deposit",
     Qty |-> FloatValue(RemoveChar(row.Total, ",")), FillPrice |-> Text("0"),
     Commission |-> "0", ClosingTime |-> row.Time]

DividendRow(row) ==
    [Symbol |-> get_exchange_prefix(row.Ticker), Side |-> "Dividend",
     Qty |-> FloatValue(row.Result), FillPrice |-> Text(""),
     Commission |-> "", ClosingTime |-> row.Time]

InterestRow(row) ==
    [Symbol |-> CASH, Side |-> "Interest",
     Qty |-> FloatValue(row.Result), FillPrice |-> Text(""),
     Commission |-> "", ClosingTime |-> row.Time]

\* the branch of the if/elif chain the row takes, "none" when it appends nothing
ConvBranch(row) ==
    IF row.Action = NoText THEN "none"
    ELSE IF row.Action \in TradeActions
         THEN (IF TradeComplete(row) THEN "trade" ELSE "none")
    ELSE IF row.Action = Deposit
         THEN (IF row.Total # NoText THEN "deposit" ELSE "none")
    ELSE IF StartsWith(row.Action, Dividend)
         THEN (IF row.Ticker # NoText /\ row.Result # NoText THEN "dividend" ELSE "none")
    ELSE IF row.Action = LendingInterest
         THEN (IF row.Result # NoText THEN "interest" ELSE "none")
    ELSE "none"

\* a float() of the branch raises ValueError
ConvRaises(row) ==
    CASE ConvBranch(row) = "trade" -> ~FloatParses(row.Shares) \/ ~FloatParses(row.Price)
      [] ConvBranch(row) = "deposit" -> ~FloatParses(RemoveChar(row.Total, ","))
      [] ConvBranch(row) = "dividend" -> ~FloatParses(row.Result)
      [] ConvBranch(row) = "interest" -> ~FloatParses(row.Result)
      [] OTHER -> FALSE

\* the dict the branch appends
ConvRowOf(row) ==
    CASE ConvBranch(row) = "trade" -> TradeRow(row)
      [] ConvBranch(row) = "deposit" -> DepositRow(row)
      [] ConvBranch(row) = "dividend" -> DividendRow(row)
      [] OTHER -> InterestRow(row)

\* one pass of "for row in reader" in parse_trading212_csv
ConvRow ==
    /\ cpc = "read"
    /\ ci < Len(input)
    /\ ci' = ci + 1
    /\ LET row == input[ci + 1] IN
       IF ConvBranch(row) = "none"
       THEN /\ cpc' = "read"
            /\ UNCHANGED <<ib_rows, origin>>
       ELSE IF ConvRaises(row)
       THEN /\ cpc' = "aborted"
            /\ UNCHANGED <<ib_rows, origin>>
       ELSE /\ cpc' = "read"
            /\ ib_rows' = ListAppend(ib_rows, ConvRowOf(row))
            /\ origin' = ListAppend(origin, ci + 1)
    /\ UNCHANGED <<input, ib_csv, posVars>>

\* the reader is exhausted: return ib_rows to main
ConvReturn ==
    /\ cpc = "read"
    /\ ci = Len(input)
    /\ cpc' = "write"
    /\ UNCHANGED <<input, ci, ib_rows, origin, ib_csv, posVars>>

\* write_ib_csv(output_file, ib_rows)
ConvWrite ==
    /\ cpc = "write"
    /\ ib_csv' = WriteCsv(ib_rows)
    /\ cpc' = "done"
    /\ UNCHANGED <<input, ci, ib_rows, origin, posVars>>

ConvInit ==
    /\ cpc = "read"
    /\ ci = 0
    /\ ib_rows = <<>>
    /\ origin = <<>>
    /\ ib_csv = NoFile

----------------------------------------------------------------------------
(* Specifications *)

\* exports for calculate_open_positions.py: trades of two tickers at the
\* threshold and above it, out of time order, with and without the optional
\* fields, and rows that are no trades
PosRows ==
    {Trade(a, tp[1], AB, sh, tp[2]) :
        a \in {MarketBuy, StopLimitSell},
        sh \in {Txt1, TxtTenThousandth}, tp \in {<<T2, Txt5>>, <<T1, Txt6>>}}
    \cup {Trade(a, T2, B, sh, Txt5) :
        a \in {MarketBuy, StopLimitSell}, sh \in {Txt1, TxtTenThousandth}}
    \cup {Trade(LimitBuy, T1, AB, NoText, NoText),
          Trade(MarketBuy, T1, NoText, Txt1, Txt5),
          Row(DividendOrdinary, T2, B, Txt1, Txt5, TxtHalf, NoText)}

\* exports for convert_trading212_to_ib.py: every branch, with each of its
\* fields present and absent
ConvRows ==
    {Trade(MarketBuy, T1, AB, Txt1, Txt5),
     Trade(LimitSell, T2, B, Txt1, Txt6),
     Trade(LimitBuy, T1, AB, NoText, Txt5),
     Trade(StopLimitSell, T2, B, Txt1, NoText),
     Trade(MarketSell, T1, NoText, Txt1, Txt5),
     Row(Deposit, T1, NoText, NoText, NoText, NoText, Txt1234),
     Row(Deposit, T2, AB, NoText, NoText, NoText, Txt1000),
     Row(Deposit, T1, NoText, NoText, NoText, TxtHalf, NoText),
     Row(Deposit, T2, NoText, NoText, NoText, NoText, TxtBad),
     Row(DividendOrdinary, T1, AB, NoText, NoText, TxtHalf, NoText),
     Row(Dividend, T2, NoText, NoText, NoText, TxtHalf, NoText),
     Row(DividendOrdinary, T1, B, NoText, NoText, NoText, Txt1),
     Row(LendingInterest, T2, NoText, NoText, NoText, TxtHalf, NoText),
     Row(LendingInterest, T1, AB, NoText, NoText, NoText, Txt1),
     Row(NoText, T1, AB, Txt1, Txt5, TxtHalf, Txt1),
     Row(Withdrawal, T2, NoText, NoText, NoText, NoText, Txt1)}

\* exports for both scripts: unknown labels, malformed numbers in fields
\* that are and are not parsed, trades with an optional field missing
BothRows ==
    {Trade(MarketBuy, T1, AB, Txt1, Txt5),
     Trade(LimitBuy, T1, B, Txt1, NoText),
     Trade(MarketBuy, T1, B, Txt1, TxtBad),
     Trade(MarketBuy, T2, AB, TxtBad, NoText),
     Row(MarketSell, T2, AB, TxtTenThousandth, Txt6, TxtBad, TxtBad),
     Row(Deposit, T2, NoText, NoText, NoText, NoText, TxtBad),
     Row(DividendOrdinary, T1, AB, NoText, NoText, TxtBad, NoText),
     Row(LendingInterest, T2, NoText, TxtBad, NoText, TxtBad, NoText),
     Row(NoText, T1, AB, TxtBad, TxtBad, TxtBad, TxtBad),
     Row(StopLimitBuy, T2, AB, TxtBad, Txt5, TxtBad, Txt1)}

Init ==
    /\ input \in Inputs(BothRows)
    /\ PosInit
    /\ ConvInit


InitPositions ==
    /\ input \in Inputs(PosRows)
    /\ PosInit
    /\ ConvInit

NextPositions == PosRow \/ PosReturn \/ PosWrite

\* a run of calculate_open_positions.py
SpecPositions == InitPositions /\ [][NextPositions]_vars

InitConvert ==
    /\ input \in Inputs(ConvRows)
    /\ PosInit
    /\ ConvInit

NextConvert == ConvRow \/ ConvReturn \/ ConvWrite

\* a run of convert_trading212_to_ib.py
SpecConvert == InitConvert /\ [][NextConvert]_vars

Next == PosRow \/ PosReturn \/ PosWrite \/ ConvRow \/ ConvReturn \/ ConvWrite

\* both scripts run on the same export, each at its own pace
Spec == Init /\ [][Next]_vars

----------------------------------------------------------------------------
(* Vocabulary of the claims, stated without the code's tests *)

BuyLabels == {MarketBuy, LimitBuy}

SellLabels == {MarketSell, LimitSell, StopLimitSell}

TradeLabels == BuyLabels \cup SellLabels

\* a trade record of ticker t
IsTradeOf(r, t) == t # NoText /\ r.Ticker = t /\ r.Action \in TradeLabels

\* a missing share count or price counts as zero
AmountOrZero(s) == IF s = NoText THEN 0 ELSE FloatValue(s)

\* sum of the share counts of the first n records that are trades of t
\* with a label in labels
RECURSIVE SumShares(_, _, _)
SumShares(labels, t, n) ==
    IF n = 0 THEN 0
    ELSE SumShares(labels, t, n - 1)
         + (IF IsTradeOf(input[n], t) /\ input[n].Action \in labels
            THEN AmountOrZero(input[n].Shares) ELSE 0)

\* buys minus sells of t over the whole input
NetOf(t) == SumShares(BuyLabels, t, Len(input)) - SumShares(SellLabels, t, Len(input))

Tickers == {AB, B, NoText} \cup {input[k].Ticker : k \in 1..Len(input)}

TradeIndexes(t) == {k \in 1..Len(input) : IsTradeOf(input[k], t)}

\* the last trade record of t in file order
LastTradeIndex(t) == CHOOSE k \in TradeIndexes(t) : \A m \in TradeIndexes(t) : m <= k

PosReturned == ppc \in {"write", "done"}

----------------------------------------------------------------------------
(* C1 *)

----------------------------------------------------------------------------
(* C2 *)

\* C2: every open position reports the timestamp and the price of the last
\* trade record of its ticker in file order, be it a buy or a sell and
\* whatever the timestamps say, in the returned dict and in the row written.
C2_LastTradeInFileOrder ==
    /\ PosReturned =>
         \A t \in DOMAIN open_positions :
            /\ TradeIndexes(t) # {}
            /\ open_positions[t].last_transaction = input[LastTradeIndex(t)].Time
            /\ open_positions[t].last_price = AmountOrZero(input[LastTradeIndex(t)].Price)
    /\ positions_csv.exists =>
         \A j \in 1..Len(positions_csv.rows) :
            \E t \in DOMAIN open_positions :
               /\ positions_csv.rows[j].Symbol = NASDAQ \o t
               /\ positions_csv.rows[j].ClosingTime = input[LastTradeIndex(t)].Time
               /\ positions_csv.rows[j].FillPrice
                    = Num(AmountOrZero(input[LastTradeIndex(t)].Price))

\* AB is open, its last trade is a sell stamped T1, an earlier buy is stamped T2
C2_Witness ==
    /\ ppc = "done"
    /\ AB \in DOMAIN open_positions
    /\ Len(input) >= 2
    /\ input[1].Ticker = AB /\ input[1].Action = MarketBuy /\ input[1].Time = T2
    /\ input[LastTradeIndex(AB)].Action = StopLimitSell
    /\ input[LastTradeIndex(AB)].Time = T1
    /\ open_positions[AB].last_transaction = T1
    /\ open_positions[AB].last_price = FloatValue(Txt6)

----------------------------------------------------------------------------
(* C3 *)

\* the ticker of a row of the open-position file
BareTicker(row) == Slice(row.Symbol, Len(NASDAQ) + 1, Len(row.Symbol))

\* C3: write_open_positions_csv writes one row per open ticker, in ascending
\* order of the bare tickers, each with Side 'Buy' and Commission '0'.
C3_OneRowPerTickerSortedBuy ==
    positions_csv.exists =>
        LET rows == positions_csv.rows IN
        /\ Len(rows) = Cardinality(DOMAIN open_positions)
        /\ \A t \in DOMAIN open_positions :
              \E j \in 1..Len(rows) :
                 /\ rows[j].Symbol = NASDAQ \o t
                 /\ rows[j].Qty = open_positions[t].shares
        /\ \A j, k \in 1..Len(rows) :
              j < k => StrLess(BareTicker(rows[j]), BareTicker(rows[k]))
        /\ \A j \in 1..Len(rows) : rows[j].Side = "Buy" /\ rows[j].Commission = "0"

\* B was traded first and AB after it, AB through buys and a sell; the file
\* has AB before B
C3_Witness ==
    /\ positions_csv.exists
    /\ Len(input) = 3
    /\ input[1].Ticker = B /\ input[1].Action = MarketBuy
    /\ input[2].Ticker = AB /\ input[2].Action = MarketBuy
    /\ input[3].Ticker = AB /\ input[3].Action = StopLimitSell
    /\ Len(positions_csv.rows) = 2
    /\ positions_csv.rows[1].Symbol = NASDAQ \o AB
    /\ positions_csv.rows[2].Symbol = NASDAQ \o B

----------------------------------------------------------------------------
(* Vocabulary of the claims about convert_trading212_to_ib.py *)

\* input row k was read and the run did not stop on it
ConvPassed(k) == k \in 1..ci /\ ~(cpc = "aborted" /\ k = ci)

\* the output rows built from input row k
RowsFrom(k) == {j \in 1..Len(origin) : origin[j] = k}

ExpectedSide(action) == IF action \in BuyLabels THEN "Buy" ELSE "Sell"

----------------------------------------------------------------------------
(* C4 *)

\* C4: in parse_trading212_csv every record with one of the five trade labels
\* and a ticker maps to exactly one output record: exchange tag + ticker, the
\* side of the label, the share count, the price and the record's timestamp.
C4_TradeRecordMapsToOneRow ==
    \A k \in 1..Len(input) :
        (ConvPassed(k) /\ input[k].Action \in TradeLabels /\ input[k].Ticker # NoText)
        => /\ Cardinality(RowsFrom(k)) = 1
           /\ \A j \in RowsFrom(k) :
                 /\ ib_rows[j].Symbol = NASDAQ \o input[k].Ticker
                 /\ ib_rows[j].Side = ExpectedSide(input[k].Action)
                 /\ ib_rows[j].Qty = AmountOrZero(input[k].Shares)
                 /\ ib_rows[j].FillPrice = Num(AmountOrZero(input[k].Price))
                 /\ ib_rows[j].ClosingTime = input[k].Time

----------------------------------------------------------------------------
(* C6 *)

\* C6: the transaction view keeps the input order: every input record gives
\* no row or one row, rows come in the order of the records they were built
\* from, and the file holds the rows in the order of the list.
C6_OutputKeepsInputOrder ==
    /\ Len(origin) = Len(ib_rows)
    /\ \A j \in 1..Len(origin) :
          /\ origin[j] \in 1..ci
          /\ ib_rows[j].ClosingTime = input[origin[j]].Time
          /\ (ib_rows[j].Side \in {"Buy", "Sell"}) <=> (input[origin[j]].Action \in TradeLabels)
          /\ (ib_rows[j].Side = "Deposit") <=> (input[origin[j]].Action = Deposit)
          /\ (ib_rows[j].Side = "Interest") <=> (input[origin[j]].Action = LendingInterest)
    /\ \A j, k \in 1..Len(origin) : j < k => origin[j] < origin[k]
    /\ ib_csv.exists => ib_csv.rows = ib_rows

\* three records, the middle one dropped, the first and the last written in
\* that order although the first is stamped later
C6_Witness ==
    /\ ib_csv.exists
    /\ Len(input) = 3
    /\ origin = <<1, 3>>
    /\ input[1].Time = T2 /\ input[3].Time = T1
    /\ ib_csv.rows[1].ClosingTime = T2
    /\ ib_csv.rows[2].ClosingTime = T1
    /\ ib_csv.rows[1].Side = "Sell"
    /\ ib_csv.rows[2].Side = "Deposit"

----------------------------------------------------------------------------
(* C8 *)

IsEmptyText(cell) == cell.kind = "text" /\ cell.s = ""

\* C8: every row of the transaction output has one of the five sides;
\* Commission is '0' for Buy and Deposit and '' for Sell, Dividend and
\* Interest; Fill Price is empty exactly for Dividend and Interest; Symbol is
\* '$CASH' exactly for Deposit and Interest, else exchange tag + ticker.
C8_RowShape ==
    \A j \in 1..Len(ib_rows) :
        LET r == ib_rows[j] IN
        /\ r.Side \in {"Buy", "Sell", "Deposit", "Dividend", "Interest"}
        /\ (r.Commission = "0") <=> (r.Side \in {"Buy", "Deposit"})
        /\ (r.Commission = "") <=> (r.Side \in {"Sell", "Dividend", "Interest"})
        /\ IsEmptyText(r.FillPrice) <=> (r.Side \in {"Dividend", "Interest"})
        /\ (r.Symbol = CASH) <=> (r.Side \in {"Deposit", "Interest"})
        /\ (r.Symbol # CASH) => (r.Symbol = NASDAQ \o input[origin[j]].Ticker)

\* a Sell, a Dividend and an Interest row written
C8_Witness ==
    /\ ib_csv.exists
    /\ Len(ib_csv.rows) = 3
    /\ ib_csv.rows[1].Side = "Sell" /\ ib_csv.rows[1].Commission = ""
    /\ ib_csv.rows[2].Side = "Dividend" /\ ib_csv.rows[2].Symbol = NASDAQ \o AB
    /\ ib_csv.rows[3].Side = "Interest" /\ ib_csv.rows[3].Symbol = CASH

----------------------------------------------------------------------------
(* C9 *)

\* the amounts of the examples, in units of 1/Scale
AmountOfExample(total) ==
    CASE total = Txt1234 -> 12345600
      [] total = Txt1000 -> 10000000

\* C9: a 'Deposit' record gives a row exactly when its total is present,
\* whatever its ticker; the row is ('$CASH', 'Deposit', amount, '0', '0',
\* timestamp), the amount being the total without its commas: '1,234.56'
\* gives 1234.56 and '1,000.00' gives 1000.0.
C9_DepositRow ==
    \A k \in 1..ci :
        input[k].Action = Deposit =>
            /\ input[k].Total = NoText => (ConvPassed(k) /\ RowsFrom(k) = {})
            /\ input[k].Total \in {Txt1234, Txt1000} =>
                  /\ ConvPassed(k)
                  /\ Cardinality(RowsFrom(k)) = 1
                  /\ \A j \in RowsFrom(k) :
                        ib_rows[j] = [Symbol |-> CASH, Side |-> "Deposit",
                                      Qty |-> AmountOfExample(input[k].Total),
                                      FillPrice |-> Text("0"), Commission |-> "0",
                                      ClosingTime |-> input[k].Time]

\* both example deposits written, one with a ticker, and a deposit without
\* total dropped
C9_Witness ==
    /\ ib_csv.exists
    /\ Len(input) = 3
    /\ input[1].Action = Deposit /\ input[1].Total = Txt1234 /\ input[1].Ticker = NoText
    /\ input[2].Action = Deposit /\ input[2].Total = NoText
    /\ input[3].Action = Deposit /\ input[3].Total = Txt1000 /\ input[3].Ticker = AB
    /\ Len(ib_csv.rows) = 2
    /\ ib_csv.rows[1].Qty = 12345600
    /\ ib_csv.rows[2].Qty = 10000000

----------------------------------------------------------------------------
(* C5 *)

\* a label that is empty or none of the labels the scripts know
Unrecognised(r) ==
    \/ r.Action = NoText
    \/ /\ r.Action \notin TradeLabels \cup {Deposit, LendingInterest}
       /\ Slice(r.Action, 1, 8) # Dividend

\* C5: a record whose label is empty or not recognised is ignored by both
\* scripts whatever its other fields hold: reading it adds no output row,
\* changes no position and raises nothing, and no written row stems from it.
C5_UnrecognisedIgnored ==
    [][/\ (ci' = ci + 1 /\ Unrecognised(input[ci + 1]))
            => (ib_rows' = ib_rows /\ cpc' = "read")
       /\ (pi' = pi + 1 /\ Unrecognised(input[pi + 1]))
            => (positions' = positions /\ ppc' = "read")
       /\ \A j \in 1..Len(origin') : ~Unrecognised(input[origin'[j]])]_vars

\* both scripts finished on an export that holds a record without label and
\* one with an unknown label, both with unparsable numbers, next to a trade
C5_Witness ==
    /\ ppc = "done" /\ cpc = "done"
    /\ Len(input) = 3
    /\ input[1].Action = NoText /\ input[1].Shares = TxtBad
    /\ input[2].Action = MarketBuy
    /\ input[3].Action = StopLimitBuy /\ input[3].Shares = TxtBad
    /\ Len(ib_csv.rows) = 1
    /\ DOMAIN positions = {AB}
    /\ positions[AB].shares = FloatValue(Txt1)

----------------------------------------------------------------------------
(* C7 *)

Malformed(s) == s # NoText /\ ~FloatParses(s)

\* some numeric field of the record is present and no number
HasMalformedField(r) ==
    \/ Malformed(r.Shares)
    \/ Malformed(r.Price)
    \/ Malformed(r.Result)
    \/ r.Total # NoText /\ ~FloatParses(RemoveChar(r.Total, ","))

\* C7 as claimed: if any input record carries a numeric field that is present
\* and cannot be parsed, neither script writes its output.
C7_AnyMalformedFieldAborts ==
    (\E k \in 1..Len(input) : HasMalformedField(input[k]))
    => (~ib_csv.exists /\ ~positions_csv.exists)

\* the fields convert_trading212_to_ib.py parses of a record, one of them malformed
ConvParsesMalformed(r) ==
    \/ /\ r.Action \in TradeLabels
       /\ r.Ticker # NoText /\ r.Shares # NoText /\ r.Price # NoText
       /\ (Malformed(r.Shares) \/ Malformed(r.Price))
    \/ /\ r.Action = Deposit
       /\ r.Total # NoText /\ ~FloatParses(RemoveChar(r.Total, ","))
    \/ /\ Slice(r.Action, 1, 8) = Dividend
       /\ r.Ticker # NoText
       /\ Malformed(r.Result)
    \/ /\ r.Action = LendingInterest
       /\ Malformed(r.Result)

\* the fields calculate_open_positions.py parses of a record, one of them malformed
PosParsesMalformed(r) ==
    /\ r.Action \in TradeLabels
    /\ r.Ticker # NoText
    /\ (Malformed(r.Shares) \/ Malformed(r.Price))

\* C7 amended: a script aborts exactly when it reads a record with a
\* malformed field that it parses for that record; it writes its output only
\* after the whole input was read without that, so never in part.
C7_ParsedFieldAbortsNoPartialOutput ==
    /\ (cpc = "aborted") <=> (\E k \in 1..ci : ConvParsesMalformed(input[k]))
    /\ (ppc = "aborted") <=> (\E k \in 1..pi : PosParsesMalformed(input[k]))
    /\ cpc = "aborted" => ConvParsesMalformed(input[ci])
    /\ ppc = "aborted" => PosParsesMalformed(input[pi])
    /\ ib_csv.exists =>
          /\ cpc = "done" /\ ci = Len(input)
          /\ ib_csv.rows = ib_rows
    /\ positions_csv.exists => (ppc = "done" /\ pi = Len(input))

\* both scripts stopped on the second of three records, after a row was
\* built, and nothing was written
C7_Witness ==
    /\ cpc = "aborted" /\ ppc = "aborted"
    /\ ci = 2 /\ pi = 2
    /\ Len(input) = 3
    /\ Len(ib_rows) = 1
    /\ DOMAIN positions # {}
    /\ input[2].Price = TxtBad
    /\ ~ib_csv.exists /\ ~positions_csv.exists

----------------------------------------------------------------------------
(* C10 *)

\* the net share count calculate_open_positions holds for t
PositionNet(t) == IF t \in DOMAIN positions THEN positions[t].shares ELSE 0

\* sum of Qty over the first n rows of ib_rows with that side for ticker t
RECURSIVE QtySum(_, _, _)
QtySum(side, t, n) ==
    IF n = 0 THEN 0
    ELSE QtySum(side, t, n - 1)
         + (IF ib_rows[n].Side = side /\ ib_rows[n].Symbol = NASDAQ \o t
            THEN ib_rows[n].Qty ELSE 0)

\* C10: run on the same input, the net share count of every ticker in
\* calculate_open_positions is the Qty of the Buy rows minus the Qty of the
\* Sell rows parse_trading212_csv emits for it.
C10_PipelinesAgreeOnTrades ==
    (PosReturned /\ cpc \in {"write", "done"}) =>
        \A t \in {AB, B} :
            PositionNet(t) = QtySum("Buy", t, Len(ib_rows)) - QtySum("Sell", t, Len(ib_rows))

====
